---------------------------- MODULE Spec2Model ----------------------------
(***************************************************************************)
(* Model of the chat command of AI-Chat-CLI (cmd/simple_chat.go, here      *)
(* src/unnamed/part_000): provider selection, the single-shot exchange,    *)
(* the interactive read-eval-print loop, the conversation history and the  *)
(* input sanitizer.                                                        *)
(*                                                                         *)
(* Text is a sequence of Unicode code points (a Go string ranged over as   *)
(* runes); a message is a record [Role, Content].                          *)
(***************************************************************************)
EXTENDS Integers, Sequences, FiniteSets, TLC

VARIABLES
    pc,           \* "Idle" | "AwaitingInput" | "Terminated"
    exit,         \* why the process ended ("none" while it runs)
    loadErr,      \* config.LoadConfig() returns an error
    cfg,          \* cfg.Providers, as the entries of the file in file order
    chatProvider, \* the package variable chatProvider (the --provider flag)
    args,         \* the positional arguments of the command (at most one)
    providerCfg,  \* the ProviderConfig handed to the session
    history,      \* conversationHistory
    stdinLeft,    \* lines left on standard input before end-of-input
    line,         \* <<raw>>: the line the last loop step read; <<>>: none
    sendResult,   \* <<err>>: what the last step's send returned; <<>>: no send
    reqBody,      \* <<ChatRequest>> the last step's send built; <<>>: none
    sends,        \* calls of askQuestionWithHistory so far
    httpCalls,    \* calls of client.Do so far
    succ,         \* successful exchanges since the history was last empty
    failed,       \* failed exchanges since the history was last empty
    outcome,      \* <<o>>: what the environment did with the last step's
                  \* exchange; <<>>: no exchange
    autoSelected, \* the provider was selected automatically (the program
                  \* prints the selection)
    printed,      \* what the last step printed: [kind, turns, lines]
    env,          \* the provider names whose <name>_API_KEY variable is set
                  \* in the environment
    cleanRuns     \* the results of the successive applications of
                  \* cleanInput to an input and to its own results

vars == <<pc, exit, loadErr, cfg, chatProvider, args, providerCfg, history,
          stdinLeft, line, sendResult, reqBody, sends, httpCalls, succ, failed,
          outcome, autoSelected, printed, env, cleanRuns>>

---------------------------------------------------------------------------
(* Bounds of the model *)

\* lines on standard input
MaxLines == 3
\* providers in the configuration file
MaxProviders == 2

---------------------------------------------------------------------------
(* Text helpers: Go's strings package on sequences of code points *)

\* unicode.IsSpace
IsSpace(r) ==
    \/ r \in {9, 10, 11, 12, 13, 32, 133, 160, 5760}
    \/ r \in 8192..8202
    \/ r \in {8232, 8233, 8239, 8287, 12288}

RECURSIVE TrimLeft(_)
TrimLeft(s) ==
    IF s # <<>> /\ IsSpace(Head(s)) THEN TrimLeft(Tail(s)) ELSE s

RECURSIVE TrimRight(_)
TrimRight(s) ==
    IF s # <<>> /\ IsSpace(s[Len(s)])
    THEN TrimRight(SubSeq(s, 1, Len(s) - 1))
    ELSE s

\* strings.TrimSpace
TrimSpace(s) == TrimRight(TrimLeft(s))

\* strings.Fields: the maximal runs of non-space code points, in order
RECURSIVE FieldsFrom(_, _, _)
FieldsFrom(s, cur, acc) ==
    IF s = <<>>
    THEN (IF cur = <<>> THEN acc ELSE Append(acc, cur))
    ELSE IF IsSpace(Head(s))
         THEN FieldsFrom(Tail(s), <<>>,
                         IF cur = <<>> THEN acc ELSE Append(acc, cur))
         ELSE FieldsFrom(Tail(s), Append(cur, Head(s)), acc)

Fields(s) == FieldsFrom(s, <<>>, <<>>)

\* strings.Join(fs, " ")
RECURSIVE JoinSpace(_)
JoinSpace(fs) ==
    IF fs = <<>> THEN <<>>
    ELSE IF Len(fs) = 1 THEN fs[1]
    ELSE fs[1] \o <<32>> \o JoinSpace(Tail(fs))

\* A string holds code points; a byte b that is not part of a valid UTF-8
\* sequence is held as -b. RuneOf is the rune Go decodes: utf8.RuneError
\* (U+FFFD) for such a byte.
RuneOf(c) == IF c < 0 THEN 65533 ELSE c

\* the UTF-8 bytes of one element of a string
Utf8Rune(c) ==
    IF c < 0 THEN <<-c>>
    ELSE IF c < 128 THEN <<c>>
    ELSE IF c < 2048 THEN <<192 + (c \div 64), 128 + (c % 64)>>
    ELSE IF c < 65536
         THEN <<224 + (c \div 4096), 128 + ((c \div 64) % 64), 128 + (c % 64)>>
    ELSE <<240 + (c \div 262144), 128 + ((c \div 4096) % 64),
           128 + ((c \div 64) % 64), 128 + (c % 64)>>

\* the bytes of a string: what len(s) counts and s[:n] slices
RECURSIVE Utf8(_)
Utf8(s) == IF s = <<>> THEN <<>> ELSE Utf8Rune(Head(s)) \o Utf8(Tail(s))

\* unicode.ToLower on the code points the model uses: A-Z, and the two
\* non-ASCII code points whose lower case is an ASCII letter; strings.ToLower
\* writes U+FFFD for an invalid byte
LowerRune(r) ==
    IF r < 0 THEN 65533
    ELSE IF r \in 65..90 THEN r + 32
    ELSE IF r = 304 THEN 105
    ELSE IF r = 8490 THEN 107
    ELSE r

\* strings.ToLower
ToLower(s) == [i \in 1..Len(s) |-> LowerRune(s[i])]

---------------------------------------------------------------------------
(* InputSanitizer *)

\* the test with an upper limit of 127 missing: DEL is kept
KeepRuneKeepsDel(r) == r = 32 \/ r = 9 \/ r >= 32

\* the test of the loop of cleanInput: the runes it keeps
KeepRune(r) == r = 32 \/ r = 9 \/ (r >= 32 /\ r <= 126) \/ r > 127

\* cleanInput without the last step, the collapse of the whitespace
cleanInputNoCollapse(input) ==
    LET cleaned == TrimSpace(input)
        result == SelectSeq([i \in 1..Len(cleaned) |-> RuneOf(cleaned[i])],
                            KeepRune)
        hasValidChar == \E i \in 1..Len(result) : result[i] # 32 /\ result[i] # 9
    IN  IF ~hasValidChar THEN <<>> ELSE result

\* cleanInput
cleanInput(input) ==
    LET cleaned == TrimSpace(input)
        result == SelectSeq([i \in 1..Len(cleaned) |-> RuneOf(cleaned[i])],
                            KeepRune)
        hasValidChar == \E i \in 1..Len(result) : result[i] # 32 /\ result[i] # 9
    IN  IF ~hasValidChar THEN <<>> ELSE JoinSpace(Fields(result))

---------------------------------------------------------------------------
(* ConversationHistory *)

Message(role, content) == [Role |-> role, Content |-> content]

\* len(*history)/2, the turn count the program prints
turnCount(h) == Len(h) \div 2

\* the maxLen showHistory passes to truncateString
HistoryDisplayLimit == 100

\* truncateString(s, maxLen) on the bytes of s: len(s) and s[:maxLen] count
\* bytes
truncateString(bytes, maxLen) ==
    IF Len(bytes) <= maxLen THEN bytes
    ELSE SubSeq(bytes, 1, maxLen) \o <<46, 46, 46>>

\* The line showHistory prints for the message at index i (from 1; the
\* code's index is i - 1): its role, the number printed before a user
\* message, and the bytes of the text shown.
historyLine(h, i) ==
    IF h[i].Role = "user"
    THEN [role |-> "user", number |-> ((i - 1) \div 2) + 1,
          text |-> Utf8(h[i].Content)]
    ELSE [role |-> "assistant", number |-> 0,
          text |-> truncateString(Utf8(h[i].Content), HistoryDisplayLimit)]

\* showHistory: one line for each user and each assistant message, in order
RECURSIVE historyLinesFrom(_, _)
historyLinesFrom(h, i) ==
    IF i > Len(h) THEN <<>>
    ELSE IF h[i].Role \in {"user", "assistant"}
         THEN <<historyLine(h, i)>> \o historyLinesFrom(h, i + 1)
         ELSE historyLinesFrom(h, i + 1)

showHistory(h) == historyLinesFrom(h, 1)

\* what a step prints: the kind of output, the turn count it shows (0 when
\* it shows none) and the transcript lines of the history command
Printed(kind, turns, lines) == [kind |-> kind, turns |-> turns, lines |-> lines]

---------------------------------------------------------------------------
(* The command words and the input lines the model draws from *)

quitWord == <<113, 117, 105, 116>>                  \* "quit"
exitWord == <<101, 120, 105, 116>>                  \* "exit"
clearWord == <<99, 108, 101, 97, 114>>              \* "clear"
resetWord == <<114, 101, 115, 101, 116>>            \* "reset"
historyWord == <<104, 105, 115, 116, 111, 114, 121>> \* "history"
helpWord == <<104, 101, 108, 112>>                  \* "help"

\* what scanner.Text() can return: one line of standard input
RawLines ==
    { <<>>,                                  \* an empty line
      <<32, 9>>,                             \* " \t": blank after trimming
      <<1, 127>>,                            \* control characters only
      quitWord, exitWord, clearWord, resetWord, historyWord, helpWord,
      <<32, 82, 101, 115, 1, 101, 116, 32>>, \* " Res\x01et "
      <<104, 105>>,                          \* "hi"
      <<104, 1, 105, 32>>,                   \* "h\x01i "
      resetWord \o <<32, 9, 110, 111, 119>>, \* "reset \tnow"
      <<81, 85, 304, 84>>                    \* "QU\u0130T", U+0130 lowers to i
    }

\* the questions a single-shot invocation is given (args[0], any string)
ArgQuestions == { <<104, 105>>, <<32, 104, 1, 105>>, <<>> }

---------------------------------------------------------------------------
(* Configuration *)

ProviderNames == {"openai", "free-oai", "demo"}

\* the --provider flag: unset, a name of the file or not, each possible
ProviderFlags == {"", "openai", "demo", "claude"}

\* the zero value of config.ProviderConfig
ZeroProviderConfig == [APIKey |-> "", BaseURL |-> "", Model |-> "", MaxTokens |-> 0]

KeyedDefaults == [APIKey |-> "sk-1", BaseURL |-> "", Model |-> "", MaxTokens |-> 0]

KeyedCustom ==
    [APIKey |-> "sk-2", BaseURL |-> "https://api.example.com/v1",
     Model |-> "gpt-4.1-nano", MaxTokens |-> 8192]

Unkeyed ==
    [APIKey |-> "", BaseURL |-> "https://api.example.com/v1",
     Model |-> "gpt-4.1-nano", MaxTokens |-> 8192]

ProviderConfigs == {KeyedDefaults, KeyedCustom, Unkeyed}

\* the providers section of a configuration file: entries with distinct
\* names, in file order
Configs ==
    UNION { { c \in [1..n -> [Name : ProviderNames, Cfg : ProviderConfigs]] :
                \A i, j \in 1..n : i # j => c[i].Name # c[j].Name }
            : n \in 0..MaxProviders }

\* the configurations of the session specification: one keyed provider, or
\* one provider without a key
SessionConfigs ==
    { <<[Name |-> "demo", Cfg |-> p]>> : p \in {KeyedDefaults, Unkeyed} }

\* _, exists := cfg.Providers[name]
ProviderExists(c, name) == \E i \in 1..Len(c) : c[i].Name = name

\* cfg.Providers[name]
ProviderOf(c, name) ==
    IF ProviderExists(c, name)
    THEN (CHOOSE e \in {c[i] : i \in 1..Len(c)} : e.Name = name).Cfg
    ELSE ZeroProviderConfig

\* Config.GetProvider, as the pair it returns, the provider and whether the
\* error is set: for a name that is not configured the zero provider and the
\* error, the environment not read; else the provider of the file, its key
\* taken from the variable <name>_API_KEY when the file has none, and no
\* error. e is the set of the names whose variable is set. (The chat command
\* does not call it.)
GetProvider(c, name, e) ==
    IF ~ProviderExists(c, name)
    THEN <<ZeroProviderConfig, TRUE>>
    ELSE IF ProviderOf(c, name).APIKey = "" /\ name \in e
         THEN <<[ProviderOf(c, name) EXCEPT !.APIKey = "env-key"], FALSE>>
         ELSE <<ProviderOf(c, name), FALSE>>

\* the names with a non-empty key
KeyedNames(c) == { c[i].Name : i \in 1..Len(c) } \cap
                 { n \in ProviderNames : ProviderOf(c, n).APIKey # "" }

\* The values chatProvider can have after the auto-selection loop: the loop
\* ranges over a Go map, whose iteration order is unspecified, and takes the
\* first keyed provider it meets.
AutoSelect(c, flag) ==
    IF flag = ""
    THEN (IF KeyedNames(c) = {} THEN {""} ELSE KeyedNames(c))
    ELSE {flag}

\* StartupCheck without the test of the key
StartupCheckNoKeyTest(c, name) ==
    IF ~ProviderExists(c, name) THEN "provider_missing" ELSE "ok"

\* the checks between selection and the session: what runSimpleChat does with
\* the selected name

StartupCheck(c, name) ==
    IF ~ProviderExists(c, name) THEN "provider_missing"
    ELSE IF ProviderOf(c, name).APIKey = "" THEN "key_missing"
    ELSE "ok"

---------------------------------------------------------------------------
(* ChatClient *)

\* the error values askQuestionWithHistory returns; NilErr is nil
Err(kind) == [kind |-> kind, status |-> 0, body |-> ""]
NilErr == Err("nil")

\* an API error that leaves out the response body
APIErrNoBody(status, body) == [kind |-> "api", status |-> status, body |-> ""]

\* fmt.Errorf("API返回错误 %d: %s", resp.StatusCode, string(body))
APIErr(status, body) == [kind |-> "api", status |-> status, body |-> body]

\* What the environment does with one exchange: the step that fails (or
\* "none"), the HTTP status and body text, and the choices of a decoded
\* response (the content of each choice's message).
Outcome(fail, status, body, choices) ==
    [fail |-> fail, status |-> status, body |-> body, choices |-> choices]

\* an answer of 34 times U+4F60: 34 characters, 102 bytes
LongAnswer == [i \in 1..34 |-> 20320]

Answers == { <<>>, <<111, 107>>, LongAnswer }  \* "", "ok", the long answer

ChoiceLists == { <<>> } \cup { <<a>> : a \in Answers }
                \cup { <<<<111, 107>>, <<110, 111>>>> } \* two choices

Outcomes ==
    { Outcome(f, 0, "", <<>>) : f \in {"marshal", "create", "transport"} }
    \cup { Outcome("none", 401, "invalid key", <<>>),
           Outcome("none", 500, "", <<>>) }
    \cup { Outcome("decode", 200, "not json", <<>>) }
    \cup { Outcome("none", 200, "json", c) : c \in ChoiceLists }

\* ChatRequest carrying only the newest message
ChatRequestLastOnly(p, messages) ==
    [Model |-> IF p.Model = "" THEN "gpt-3.5-turbo" ELSE p.Model,
     Messages |-> SubSeq(messages, Len(messages), Len(messages)),
     MaxTokens |-> IF p.MaxTokens = 0 THEN 2000 ELSE p.MaxTokens,
     Temperature |-> "0.7",
     URL |-> <<IF p.BaseURL = "" THEN "https://api.openai.com/v1" ELSE p.BaseURL,
               "/chat/completions">>,
     Authorization |-> <<"Bearer ", p.APIKey>>]

\* the ChatRequest of one exchange, with the URL and the authorization header
\* of the HTTP request that carries it
ChatRequest(p, messages) ==
    [Model |-> IF p.Model = "" THEN "gpt-3.5-turbo" ELSE p.Model,
     Messages |-> messages,
     MaxTokens |-> IF p.MaxTokens = 0 THEN 2000 ELSE p.MaxTokens,
     Temperature |-> "0.7",
     URL |-> <<IF p.BaseURL = "" THEN "https://api.openai.com/v1" ELSE p.BaseURL,
               "/chat/completions">>,
     Authorization |-> <<"Bearer ", p.APIKey>>]

\* what one call leaves: the history, the error returned, the request built
\* and the number of HTTP calls made (client.Do)
SendResult(h, err, req, http) ==
    [history |-> h, err |-> err, req |-> req, http |-> http]

\* the history with the answer, cut to its last two messages
appendAnswerTrimmed(h1, response) ==
    LET h2 == Append(h1, Message("assistant", response))
    IN  SubSeq(h2, Len(h2) - 1, Len(h2))

\* the history with the answer that drops the answer
appendAnswerDropped(h1, response) == h1

\* *history = append(*history, Message{Role: "assistant", Content: response})
appendAnswer(h1, response) == Append(h1, Message("assistant", response))

\* the history an error return leaves, when it undoes the question
historyOnErrorRolledBack(h, h1) == h

\* The history an error return leaves, h being the history at the call and h1
\* the history with the question appended: every error return comes after
\* the append and none undoes it.
historyOnError(h, h1) == h1

\* askQuestionWithHistory when a response without choices is taken as an
\* empty answer
askQuestionEmptyAnswer(p, question, h, o) ==
    LET h1 == Append(h, Message("user", question))
        req == ChatRequest(p, h1)
        he == historyOnError(h, h1)
    IN  IF o.fail = "marshal" THEN SendResult(he, Err("marshal"), <<req>>, 0)
        ELSE IF o.fail = "create" THEN SendResult(he, Err("create"), <<req>>, 0)
        ELSE IF o.fail = "transport" THEN SendResult(he, Err("transport"), <<req>>, 1)
        ELSE IF o.status # 200
             THEN SendResult(he, APIErr(o.status, o.body), <<req>>, 1)
        ELSE IF o.fail = "decode" THEN SendResult(he, Err("decode"), <<req>>, 1)
        ELSE SendResult(appendAnswer(h1, IF Len(o.choices) = 0 THEN <<>>
                                         ELSE o.choices[1]),
                        NilErr, <<req>>, 1)

\* askQuestionWithHistory(providerCfg, question, history) when the
\* environment answers with outcome o
askQuestionWithHistory(p, question, h, o) ==
    LET h1 == Append(h, Message("user", question))
        req == ChatRequest(p, h1)
        he == historyOnError(h, h1)
    IN  IF o.fail = "marshal" THEN SendResult(he, Err("marshal"), <<req>>, 0)
        ELSE IF o.fail = "create" THEN SendResult(he, Err("create"), <<req>>, 0)
        ELSE IF o.fail = "transport" THEN SendResult(he, Err("transport"), <<req>>, 1)
        ELSE IF o.status # 200
             THEN SendResult(he, APIErr(o.status, o.body), <<req>>, 1)
        ELSE IF o.fail = "decode" THEN SendResult(he, Err("decode"), <<req>>, 1)
        ELSE IF Len(o.choices) = 0 THEN SendResult(he, Err("empty"), <<req>>, 1)
        ELSE SendResult(appendAnswer(h1, o.choices[1]), NilErr, <<req>>, 1)

---------------------------------------------------------------------------
(* SessionLoop *)

\* Mode when the question on the command line is ignored
ModeAlwaysInteractive(a) == "interactive"

\* what the caller and askQuestionWithHistory print for the result r: the
\* answer and the usage line with the turn count, or the error
AskPrinted(r) ==
    IF r.err = NilErr THEN Printed("answer", turnCount(r.history), <<>>)
    ELSE Printed("error", 0, <<>>)

\* len(args) > 0 selects the single-shot mode
Mode(a) == IF Len(a) > 0 THEN "single" ELSE "interactive"

\* Dispatch that compares the line as typed, without lower-casing it
DispatchCaseSensitive(raw) ==
    LET input == TrimSpace(raw)
        clean == cleanInput(input)
    IN  IF input = <<>> THEN "blank"
        ELSE IF clean = <<>> THEN "invalid"
        ELSE IF clean \in {quitWord, exitWord} THEN "quit"
        ELSE IF clean = clearWord THEN "clear"
        ELSE IF clean = resetWord THEN "reset"
        ELSE IF clean = historyWord THEN "history"
        ELSE IF clean = helpWord THEN "help"
        ELSE "question"

\* Dispatch without the reset command
DispatchNoReset(raw) ==
    LET input == TrimSpace(raw)
        clean == cleanInput(input)
        lowerInput == ToLower(clean)
    IN  IF input = <<>> THEN "blank"
        ELSE IF clean = <<>> THEN "invalid"
        ELSE IF lowerInput \in {quitWord, exitWord} THEN "quit"
        ELSE IF lowerInput = clearWord THEN "clear"
        ELSE IF lowerInput = historyWord THEN "history"
        ELSE IF lowerInput = helpWord THEN "help"
        ELSE "question"

\* What the loop body does with the line scanner.Text() returned: "blank"
\* and "invalid" re-prompt, a command word runs the command, anything else is
\* a question.
Dispatch(raw) ==
    LET input == TrimSpace(raw)
        clean == cleanInput(input)
        lowerInput == ToLower(clean)
    IN  IF input = <<>> THEN "blank"
        ELSE IF clean = <<>> THEN "invalid"
        ELSE IF lowerInput \in {quitWord, exitWord} THEN "quit"
        ELSE IF lowerInput = clearWord THEN "clear"
        ELSE IF lowerInput = resetWord THEN "reset"
        ELSE IF lowerInput = historyWord THEN "history"
        ELSE IF lowerInput = helpWord THEN "help"
        ELSE "question"

\* the question the loop sends for a line dispatched as a question
QuestionOf(raw) == cleanInput(TrimSpace(raw))

\* Dispatch and QuestionOf on the input lines of the model, computed once
dispatchOf == [raw \in RawLines |-> Dispatch(raw)]
questionOf == [raw \in RawLines |-> QuestionOf(raw)]

\* a reset that keeps the last message
resetHistoryKeepsLast(h) == IF h = <<>> THEN <<>> ELSE <<h[Len(h)]>>

\* a reset that keeps an unanswered question
resetHistoryKeepsOrphan(h) ==
    IF Len(h) % 2 = 1 THEN <<h[Len(h)]>> ELSE <<>>

\* *history = []Message{}
resetHistory(h) == <<>>

\* a loop that returns when the exchange failed
LoopAfterSendAborts(err) ==
    IF err.kind # "nil" THEN "Terminated" ELSE "AwaitingInput"

\* where the loop goes after askQuestionWithHistory returned err: it prints
\* the error and a hint and prompts again
LoopAfterSend(err) == "AwaitingInput"

InitWith(configs, flags, lines, envs) ==
    /\ pc = "Idle"
    /\ exit = "none"
    /\ \/ loadErr = TRUE /\ cfg = <<>>
       \/ loadErr = FALSE /\ cfg \in configs
    /\ chatProvider \in flags
    /\ args \in {<<>>} \cup { <<q>> : q \in ArgQuestions }
    /\ providerCfg = ZeroProviderConfig
    /\ history = <<>>
    /\ stdinLeft \in 0..lines
    /\ line = <<>>
    /\ sendResult = <<>>
    /\ reqBody = <<>>
    /\ sends = 0
    /\ httpCalls = 0
    /\ succ = 0
    /\ failed = 0
    /\ outcome = <<>>
    /\ autoSelected = FALSE
    /\ printed = Printed("none", 0, <<>>)
    /\ env \in envs
    /\ cleanRuns = <<>>

\* a session: one provider in the file, up to MaxLines lines of input
Init == InitWith(SessionConfigs, {"", "demo"}, MaxLines, {{}})

\* startup: any configuration file and flag, at most one line of input
InitConfig == InitWith(Configs, ProviderFlags, 1, {{}, {"demo"}})

\* runSimpleChat: config.LoadConfig() fails
LoadConfigFails ==
    /\ pc = "Idle"
    /\ loadErr
    /\ pc' = "Terminated"
    /\ exit' = "config_load"
    /\ UNCHANGED <<loadErr, cfg, chatProvider, args, providerCfg, history,
                   stdinLeft, line, sendResult, reqBody, sends, httpCalls,
                   succ, failed, outcome, autoSelected, env, cleanRuns>>
    /\ printed' = Printed("config_load", 0, <<>>)

\* runSimpleChat: the selected provider is not in the file, or has no key
ConfigError ==
    /\ pc = "Idle"
    /\ ~loadErr
    /\ \E sel \in AutoSelect(cfg, chatProvider) :
        /\ StartupCheck(cfg, sel) # "ok"
        /\ chatProvider' = sel
        /\ autoSelected' = (chatProvider = "" /\ sel # "")
        /\ exit' = StartupCheck(cfg, sel)
        /\ printed' = Printed(StartupCheck(cfg, sel), 0, <<>>)
    /\ pc' = "Terminated"
    /\ UNCHANGED <<loadErr, cfg, args, providerCfg, history, stdinLeft, line,
                   sendResult, reqBody, sends, httpCalls, succ, failed,
                   outcome, env, cleanRuns>>

\* runSimpleChat with a question: one exchange on an empty history, then the
\* function returns
SingleShot ==
    /\ pc = "Idle"
    /\ ~loadErr
    /\ Mode(args) = "single"
    /\ \E sel \in AutoSelect(cfg, chatProvider), o \in Outcomes :
        /\ StartupCheck(cfg, sel) = "ok"
        /\ LET r == askQuestionWithHistory(ProviderOf(cfg, sel), args[1], <<>>, o)
           IN  /\ chatProvider' = sel
               /\ autoSelected' = (chatProvider = "" /\ sel # "")
               /\ providerCfg' = ProviderOf(cfg, sel)
               /\ outcome' = <<o>>
               /\ history' = r.history
               /\ sendResult' = <<r.err>>
               /\ reqBody' = r.req
               /\ sends' = sends + 1
               /\ httpCalls' = httpCalls + r.http
               /\ succ' = IF r.err = NilErr THEN succ + 1 ELSE succ
               /\ failed' = IF r.err = NilErr THEN failed ELSE failed + 1
               /\ printed' = AskPrinted(r)
    /\ pc' = "Terminated"
    /\ exit' = "single_shot"
    /\ UNCHANGED <<loadErr, cfg, args, stdinLeft, line, env, cleanRuns>>

\* runSimpleChat without a question: runInteractiveChatWithHistory starts
EnterLoop ==
    /\ pc = "Idle"
    /\ ~loadErr
    /\ Mode(args) = "interactive"
    /\ \E sel \in AutoSelect(cfg, chatProvider) :
        /\ StartupCheck(cfg, sel) = "ok"
        /\ chatProvider' = sel
        /\ autoSelected' = (chatProvider = "" /\ sel # "")
        /\ providerCfg' = ProviderOf(cfg, sel)
    /\ pc' = "AwaitingInput"
    /\ printed' = Printed("banner", 0, <<>>)
    /\ UNCHANGED <<exit, loadErr, cfg, args, history, stdinLeft, line,
                   sendResult, reqBody, sends, httpCalls, succ, failed,
                   outcome, env, cleanRuns>>

\* scanner.Scan() returns false at the end of the input
EndOfInput ==
    /\ pc = "AwaitingInput"
    /\ stdinLeft = 0
    /\ pc' = "Terminated"
    /\ exit' = "eof"
    /\ printed' = Printed("none", 0, <<>>)
    /\ line' = <<>>
    /\ sendResult' = <<>>
    /\ reqBody' = <<>>
    /\ outcome' = <<>>
    /\ UNCHANGED <<loadErr, cfg, chatProvider, args, providerCfg, history,
                   stdinLeft, sends, httpCalls, succ, failed, autoSelected,
                   env, cleanRuns>>

\* scanner.Scan() returns false and scanner.Err() is an error
InputError ==
    /\ pc = "AwaitingInput"
    /\ pc' = "Terminated"
    /\ exit' = "input_error"
    /\ printed' = Printed("input_error", 0, <<>>)
    /\ line' = <<>>
    /\ sendResult' = <<>>
    /\ reqBody' = <<>>
    /\ outcome' = <<>>
    /\ UNCHANGED <<loadErr, cfg, chatProvider, args, providerCfg, history,
                   stdinLeft, sends, httpCalls, succ, failed, autoSelected,
                   env, cleanRuns>>

\* the loop reads raw and dispatches it as kind, without a send
ReadNoSend(kind, newPc, newExit) ==
    /\ pc = "AwaitingInput"
    /\ stdinLeft > 0
    /\ \E raw \in RawLines :
        /\ dispatchOf[raw] = kind
        /\ line' = <<raw>>
    /\ stdinLeft' = stdinLeft - 1
    /\ pc' = newPc
    /\ exit' = newExit
    /\ sendResult' = <<>>
    /\ reqBody' = <<>>
    /\ outcome' = <<>>
    /\ UNCHANGED <<loadErr, cfg, chatProvider, args, providerCfg, sends,
                   httpCalls, autoSelected, env, cleanRuns>>

\* an empty line after trimming: continue
ReadBlank ==
    /\ ReadNoSend("blank", "AwaitingInput", exit)
    /\ printed' = Printed("none", 0, <<>>)
    /\ UNCHANGED <<history, succ, failed>>

\* cleanInput returns "": a warning, continue
ReadInvalid ==
    /\ ReadNoSend("invalid", "AwaitingInput", exit)
    /\ printed' = Printed("warning", 0, <<>>)
    /\ UNCHANGED <<history, succ, failed>>

\* quit that prints the farewell and prompts again
CmdQuitContinues ==
    /\ ReadNoSend("quit", "AwaitingInput", exit)
    /\ printed' = Printed("bye", 0, <<>>)
    /\ UNCHANGED <<history, succ, failed>>

\* quit, exit: return
CmdQuit ==
    /\ ReadNoSend("quit", "Terminated", "quit")
    /\ printed' = Printed("bye", 0, <<>>)
    /\ UNCHANGED <<history, succ, failed>>

\* clear that also empties the history
CmdClearResets ==
    /\ ReadNoSend("clear", "AwaitingInput", exit)
    /\ printed' = Printed("clear", 0, <<>>)
    /\ history' = <<>>
    /\ succ' = 0
    /\ failed' = 0

\* clear: clears the screen and prints the turn count, continue
CmdClear ==
    /\ ReadNoSend("clear", "AwaitingInput", exit)
    /\ printed' = Printed("clear", turnCount(history), <<>>)
    /\ UNCHANGED <<history, succ, failed>>

\* reset: empties the history, continue
CmdReset ==
    /\ ReadNoSend("reset", "AwaitingInput", exit)
    /\ history' = resetHistory(history)
    /\ succ' = 0
    /\ failed' = 0
    /\ printed' = Printed("reset", 0, <<>>)

\* history: showHistory(*history), continue
CmdHistory ==
    /\ ReadNoSend("history", "AwaitingInput", exit)
    /\ printed' = Printed("history", turnCount(history), showHistory(history))
    /\ UNCHANGED <<history, succ, failed>>

\* help: prints the commands, continue
CmdHelp ==
    /\ ReadNoSend("help", "AwaitingInput", exit)
    /\ printed' = Printed("help", 0, <<>>)
    /\ UNCHANGED <<history, succ, failed>>

\* any other line: askQuestionWithHistory(providerCfg, cleanInput, history)
Question ==
    /\ pc = "AwaitingInput"
    /\ stdinLeft > 0
    /\ \E raw \in RawLines, o \in Outcomes :
        /\ dispatchOf[raw] = "question"
        /\ LET r == askQuestionWithHistory(providerCfg, questionOf[raw], history, o)
           IN  /\ line' = <<raw>>
               /\ outcome' = <<o>>
               /\ history' = r.history
               /\ sendResult' = <<r.err>>
               /\ reqBody' = r.req
               /\ sends' = sends + 1
               /\ httpCalls' = httpCalls + r.http
               /\ succ' = IF r.err = NilErr THEN succ + 1 ELSE succ
               /\ failed' = IF r.err = NilErr THEN failed ELSE failed + 1
               /\ pc' = LoopAfterSend(r.err)
               /\ printed' = AskPrinted(r)
    /\ stdinLeft' = stdinLeft - 1
    /\ UNCHANGED <<exit, loadErr, cfg, chatProvider, args, providerCfg,
                   autoSelected, env, cleanRuns>>

Next ==
    \/ LoadConfigFails
    \/ ConfigError
    \/ SingleShot
    \/ EnterLoop
    \/ EndOfInput
    \/ InputError
    \/ ReadBlank
    \/ ReadInvalid
    \/ CmdQuit
    \/ CmdClear
    \/ CmdReset
    \/ CmdHistory
    \/ CmdHelp
    \/ Question

Spec == Init /\ [][Next]_vars

\* The program runs as long as it can take a step: it is a single thread
\* that blocks only on the input and on the HTTP call, and every exchange is
\* taken to return.
SpecLive == Init /\ [][Next]_vars /\ WF_vars(Next)

SpecConfig == InitConfig /\ [][Next]_vars

---------------------------------------------------------------------------
(* The sanitizer alone: cleanInput applied to an input, then to its result *)

\* the longest input
MaxInputLen == 4

\* a control character, tab, space, a letter, DEL, a C1 control, the
\* no-break space (white space above 127) and an invalid byte 0xFF
CleanAlphabet == {1, 9, 32, 97, 127, 128, 160, -255}

CleanInputs == UNION { [1..n -> CleanAlphabet] : n \in 0..MaxInputLen }

InitClean ==
    /\ pc = "Sanitizer"
    /\ exit = "none"
    /\ loadErr = FALSE
    /\ cfg = <<>>
    /\ chatProvider = ""
    /\ args = <<>>
    /\ providerCfg = ZeroProviderConfig
    /\ history = <<>>
    /\ stdinLeft = 0
    /\ line \in { <<input>> : input \in CleanInputs }
    /\ sendResult = <<>>
    /\ reqBody = <<>>
    /\ sends = 0
    /\ httpCalls = 0
    /\ succ = 0
    /\ failed = 0
    /\ outcome = <<>>
    /\ autoSelected = FALSE
    /\ printed = Printed("none", 0, <<>>)
    /\ env = {}
    /\ cleanRuns = <<>>

\* cleanInput applied to the input, then to the result it returned
ApplyClean ==
    /\ pc = "Sanitizer"
    /\ Len(cleanRuns) < 2
    /\ cleanRuns' = Append(cleanRuns,
                           cleanInput(IF cleanRuns = <<>> THEN line[1]
                                      ELSE cleanRuns[Len(cleanRuns)]))
    /\ UNCHANGED <<pc, exit, loadErr, cfg, chatProvider, args, providerCfg,
                   history, stdinLeft, line, sendResult, reqBody, sends,
                   httpCalls, succ, failed, outcome, autoSelected, printed,
                   env>>

NextClean == ApplyClean

SpecClean == InitClean /\ [][NextClean]_vars

---------------------------------------------------------------------------
(* Properties of the history *)

\* the sanitized form of a line and whether it is a command word
CommandWords == {quitWord, exitWord, clearWord, resetWord, historyWord, helpWord}
IsQuestionLine(raw) ==
    cleanInput(raw) # <<>> /\ ToLower(cleanInput(raw)) \notin CommandWords

\* the question of the exchange a step from the unprimed state performs
AskedQuestion == IF pc = "Idle" THEN args[1] ELSE QuestionOf(line'[1])

\* the step performs an exchange
Exchanged == sends' = sends + 1

\* C1 (as stated): after N successful exchanges since the history was last
\* empty, the history length is 2N and the turn count is N, in every
\* reachable state.
C1_LengthIsTwiceSuccesses ==
    Len(history) = 2 * succ /\ turnCount(history) = succ

\* C1 (amended): with N successful and F failed exchanges since the history
\* was last empty, the history length is 2N + F and the turn count is
\* N + F div 2; without a failed exchange they are 2N and N.
C1_LengthCountsFailures ==
    /\ Len(history) = 2 * succ + failed
    /\ turnCount(history) = succ + (failed \div 2)
    /\ failed = 0 => Len(history) = 2 * succ /\ turnCount(history) = succ

C1_Witness == succ = 1 /\ failed = 2 /\ pc = "AwaitingInput"

\* C2: when an exchange fails, in any of the ways it can fail, the history
\* is the history before the call with one user message holding the
\* question appended; nothing is rolled back, no assistant message is added.
C2_FailureKeepsQuestion ==
    [][(Exchanged /\ sendResult'[1] # NilErr)
         => /\ history' = Append(history, Message("user", AskedQuestion))
            /\ sendResult'[1].kind \in
                 {"marshal", "create", "transport", "api", "decode", "empty"}]_vars

C2_Witness ==
    /\ sendResult # <<>>
    /\ sendResult[1].kind = "decode"
    /\ Len(history) = 3
    /\ history[2].Role = "assistant"
    /\ history[3].Role = "user"

\* C3 (as stated): when the API answers with status 200 and zero choices,
\* send fails with the empty-response error, the history ends with the user
\* message and its length is odd.
C3_EmptyResponseLeavesOddLength ==
    (outcome # <<>> /\ outcome[1] = Outcome("none", 200, "json", <<>>))
      => /\ sendResult = <<Err("empty")>>
         /\ history[Len(history)].Role = "user"
         /\ Len(history) % 2 = 1

\* C3 (amended): when the API answers with status 200 and zero choices, send
\* fails with the empty-response error and the history is the history before
\* the call with the user message appended and no assistant message after
\* it; its length is one more than before, which is odd exactly when the
\* number of failed exchanges since the history was last empty was even.
C3_EmptyResponseAppendsQuestion ==
    [][(Exchanged /\ outcome'[1] = Outcome("none", 200, "json", <<>>))
         => /\ sendResult' = <<Err("empty")>>
            /\ history' = Append(history, Message("user", AskedQuestion))
            /\ history'[Len(history')].Role = "user"
            /\ Len(history') = Len(history) + 1
            /\ (Len(history') % 2 = 1) <=> (failed % 2 = 0)]_vars

C3_Witness ==
    /\ outcome = <<Outcome("none", 200, "json", <<>>)>>
    /\ sendResult = <<Err("empty")>>
    /\ Len(history) = 2
    /\ history[1].Role = "user"
    /\ history[2].Role = "user"

---------------------------------------------------------------------------
(* Properties of the loop *)

\* C4: the loop never ends because of an exchange error: after an exchange,
\* failed or not, the session is in AwaitingInput, and a step of the loop
\* that ends the session is a quit or exit command, the end of the input or
\* an input read failure.
C4_LoopSurvivesExchangeErrors ==
    [][pc = "AwaitingInput"
         => /\ Exchanged => pc' = "AwaitingInput" /\ exit' = "none"
            /\ pc' = "Terminated"
                 => /\ ~Exchanged
                    /\ exit' \in {"quit", "eof", "input_error"}
                    /\ exit' = "quit"
                         => ToLower(cleanInput(line'[1])) \in {quitWord, exitWord}
                    /\ exit' = "eof" => stdinLeft = 0]_vars

C4_Witness ==
    /\ pc = "AwaitingInput"
    /\ Len(history) = 3
    /\ history[1].Role = "user"
    /\ history[2].Role = "user"
    /\ history[3].Role = "assistant"
    /\ failed = 1

\* C5: a loop step issues an exchange exactly when the line it read has a
\* non-empty sanitized form that is no command word, and then exactly one,
\* with at most one HTTP call (none only when the request could not be
\* built); every other line issues no exchange and no HTTP call.
C5_OneExchangePerQuestion ==
    [][(pc = "AwaitingInput" /\ line' # <<>>)
         => IF IsQuestionLine(line'[1])
            THEN /\ sends' = sends + 1
                 /\ httpCalls' \in {httpCalls, httpCalls + 1}
                 /\ httpCalls' = httpCalls
                      => sendResult'[1].kind \in {"marshal", "create"}
            ELSE sends' = sends /\ httpCalls' = httpCalls]_vars

C5_Witness ==
    /\ line = <<resetWord>>
    /\ sends = 1
    /\ httpCalls = 1
    /\ history = <<>>
    /\ stdinLeft = 0

\* C6: after the reset command, on any history, the history has length 0
\* and turn count 0 and the session is in AwaitingInput.
C6_ResetEmptiesHistory ==
    (pc # "Idle" /\ line # <<>> /\ ToLower(cleanInput(line[1])) = resetWord)
      => /\ Len(history) = 0
         /\ turnCount(history) = 0
         /\ pc = "AwaitingInput"

C6_Witness ==
    /\ line = <<<<32, 82, 101, 115, 1, 101, 116, 32>>>>
    /\ sends = 1
    /\ httpCalls = 0
    /\ history = <<>>

\* C7: with a question on the command line exactly one exchange is
\* performed, successful or not, and the program exits; the loop is never
\* entered and no line is read.
C7_SingleShotOneExchange ==
    Len(args) > 0
      => /\ pc \in {"Idle", "Terminated"}
         /\ line = <<>>
         /\ exit \in {"none", "config_load", "provider_missing", "key_missing",
                      "single_shot"}
         /\ sends = (IF exit = "single_shot" THEN 1 ELSE 0)
         /\ (pc = "Terminated" /\ exit = "single_shot")
              => sendResult # <<>> /\ Len(history) \in {1, 2}

C7_Witness ==
    /\ exit = "single_shot"
    /\ pc = "Terminated"
    /\ sendResult # <<>>
    /\ sendResult[1].kind = "transport"
    /\ sends = 1

---------------------------------------------------------------------------
(* Properties of the provider selection *)

\* C8: no exchange is issued and the loop is not entered unless the
\* selected provider is in the configuration with a non-empty key; with a
\* missing provider, an empty key or no keyed provider to select, the
\* program ends with a configuration error before any prompt or HTTP call.
C8_NoSessionWithoutKey ==
    LET valid == /\ ~loadErr
                 /\ ProviderExists(cfg, chatProvider)
                 /\ ProviderOf(cfg, chatProvider).APIKey # ""
    IN  /\ (pc = "AwaitingInput" \/ sends > 0 \/ httpCalls > 0 \/ line # <<>>
              \/ exit \in {"single_shot", "quit", "eof", "input_error"})
             => valid /\ providerCfg = ProviderOf(cfg, chatProvider)
        /\ (pc # "Idle" /\ ~valid)
             => /\ pc = "Terminated"
                /\ exit \in {"config_load", "provider_missing", "key_missing"}
                /\ sends = 0 /\ httpCalls = 0 /\ line = <<>>
                /\ history = <<>>

C8_Witness ==
    /\ pc = "Terminated"
    /\ exit = "key_missing"
    /\ Len(cfg) = 2
    /\ KeyedNames(cfg) # {}
    /\ sends = 0

\* the first entry of the file, in file order, with a non-empty key
FirstKeyed(c) ==
    c[CHOOSE i \in 1..Len(c) :
        /\ c[i].Cfg.APIKey # ""
        /\ \A j \in 1..(i - 1) : c[j].Cfg.APIKey = ""].Name

\* C9: when no provider is requested, the provider chosen is the first
\* provider of the configuration, in configuration order, with a non-empty
\* key.
C9_AutoSelectsFirstKeyed ==
    autoSelected => chatProvider = FirstKeyed(cfg)

\* C10: the request of every exchange carries the whole history: all
\* messages recorded since the history was last empty, in order, followed
\* by the new question as the last message.
C10_RequestCarriesWholeHistory ==
    [][Exchanged
         => /\ reqBody' # <<>>
            /\ reqBody'[1].Messages = Append(history, Message("user", AskedQuestion))
            /\ Len(reqBody'[1].Messages) = 2 * succ + failed + 1]_vars

C10_Witness ==
    /\ reqBody # <<>>
    /\ Len(reqBody[1].Messages) = 4
    /\ reqBody[1].Messages[1].Role = "user"
    /\ reqBody[1].Messages[2].Role = "user"
    /\ reqBody[1].Messages[3].Role = "assistant"
    /\ reqBody[1].Messages[4].Role = "user"

---------------------------------------------------------------------------
(* Properties of the dispatch *)

\* the step reads a line in the loop
ReadsLine == pc = "AwaitingInput" /\ line' # <<>>

\* the sanitized form of the line the step reads, and its lower case
ReadClean == cleanInput(line'[1])
ReadLower == ToLower(cleanInput(line'[1]))

\* C11: a line is dispatched as a session command exactly when its
\* sanitized form, lower-cased, is one of quit, exit, clear, reset, history,
\* help, and then as that command; every other line with a non-empty
\* sanitized form is sent as a question, the sanitized form being the
\* question.
C11_CommandsMatchCaseInsensitively ==
    [][ReadsLine
         => /\ (ReadLower \in {quitWord, exitWord}) <=> (printed'.kind = "bye")
            /\ (ReadLower = clearWord) <=> (printed'.kind = "clear")
            /\ (ReadLower = resetWord) <=> (printed'.kind = "reset")
            /\ (ReadLower = historyWord) <=> (printed'.kind = "history")
            /\ (ReadLower = helpWord) <=> (printed'.kind = "help")
            /\ (ReadClean # <<>> /\ ReadLower \notin CommandWords) <=> Exchanged
            /\ Exchanged
                 => history'[Len(history) + 1] = Message("user", ReadClean)]_vars

C11_Witness ==
    /\ line = <<resetWord \o <<32, 9, 110, 111, 119>>>>
    /\ sendResult = <<NilErr>>
    /\ history[1] = Message("user", resetWord \o <<32, 110, 111, 119>>)
    /\ sends = 1

\* C12: the loop reaches Terminated at the end of the input and on quit or
\* exit; once Terminated nothing more happens; and every run, its input
\* being finite and every exchange returning, reaches Terminated.
C12_LoopTerminates ==
    /\ [][(pc = "AwaitingInput" /\ stdinLeft = 0) => pc' = "Terminated"]_vars
    /\ [][(ReadsLine /\ ReadLower \in {quitWord, exitWord})
            => pc' = "Terminated"]_vars
    /\ [][pc # "Terminated"]_vars
    /\ <>(pc = "Terminated")

C12_Witness ==
    /\ pc = "Terminated"
    /\ exit = "eof"
    /\ stdinLeft = 0
    /\ sends = 2
    /\ failed = 1

\* C13: a blank line, a line that sanitizes to empty and the commands clear,
\* history, help, quit and exit leave the history as it was; all of them but
\* quit and exit leave the session in AwaitingInput.
C13_OtherStepsKeepHistory ==
    [][(ReadsLine /\ (ReadClean = <<>> \/ ReadLower \in CommandWords \ {resetWord}))
         => /\ history' = history
            /\ succ' = succ /\ failed' = failed
            /\ IF ReadLower \in {quitWord, exitWord}
               THEN pc' = "Terminated"
               ELSE pc' = "AwaitingInput"]_vars

C13_Witness ==
    /\ line = <<clearWord>>
    /\ printed = Printed("clear", 1, <<>>)
    /\ Len(history) = 3
    /\ pc = "AwaitingInput"

---------------------------------------------------------------------------
(* Properties of the sanitizer *)

\* C14: cleanInput is idempotent: applied to its own result it returns that
\* result, for every input.
C14_CleanIsIdempotent ==
    Len(cleanRuns) = 2 => cleanRuns[2] = cleanRuns[1]

C14_Witness ==
    /\ line = <<<<1, 160, 97, 9>>>>
    /\ cleanRuns = <<<<97>>, <<97>>>>

---------------------------------------------------------------------------
(* Properties of the transcript *)

\* the first n code points of s
FirstChars(s, n) == SubSeq(s, 1, IF Len(s) < n THEN Len(s) ELSE n)

\* C15: in the transcript of the history command an assistant message of at
\* most 100 characters is shown unmodified, a longer one as its first 100
\* characters followed by "..."; user messages are shown whole. The length
\* is counted in characters.
C15_TruncatesByCharacters ==
    printed.kind = "history"
      => /\ Len(printed.lines) = Len(history)
         /\ \A i \in 1..Len(history) :
              printed.lines[i].text =
                IF history[i].Role = "user"
                     \/ Len(history[i].Content) <= HistoryDisplayLimit
                THEN Utf8(history[i].Content)
                ELSE Utf8(FirstChars(history[i].Content, HistoryDisplayLimit))
                       \o <<46, 46, 46>>

---------------------------------------------------------------------------
(* Properties of the exchange *)

\* C16: when the API answers with a status other than 200, send fails with
\* the API error that carries the status code and the body text, and the
\* history gains the user message only; nothing else can come of it.
C16_Non200IsAPIError ==
    [][(Exchanged /\ outcome'[1].fail = "none" /\ outcome'[1].status # 200)
         => /\ sendResult' = <<[kind |-> "api", status |-> outcome'[1].status,
                                body |-> outcome'[1].body]>>
            /\ history' = Append(history, Message("user", AskedQuestion))
            /\ printed'.kind = "error"]_vars

C16_Witness ==
    /\ sendResult = <<[kind |-> "api", status |-> 401, body |-> "invalid key"]>>
    /\ outcome # <<>>
    /\ outcome[1].status = 401
    /\ Len(history) = 1

\* C17: a provider without a key in the file whose <NAME>_API_KEY variable
\* is set in the environment is usable: the chat command does not end with
\* the missing-key error for it.
C17_KeyFromEnvironment ==
    (/\ pc # "Idle"
     /\ ~loadErr
     /\ ~GetProvider(cfg, chatProvider, env)[2]
     /\ GetProvider(cfg, chatProvider, env)[1].APIKey # "")
      => exit # "key_missing"

\* C18: in every history an assistant message comes right after a user
\* message: the history does not start with an assistant message, has no two
\* assistant messages in a row, and holds the roles user and assistant only.
C18_AssistantFollowsUser ==
    \A i \in 1..Len(history) :
        /\ history[i].Role \in {"user", "assistant"}
        /\ history[i].Role = "assistant"
             => i > 1 /\ history[i - 1].Role = "user"

C18_Witness ==
    /\ Len(history) = 4
    /\ history[2].Role = "assistant"
    /\ history[4].Role = "assistant"
    /\ succ = 2

\* h is a prefix of g
IsPrefix(h, g) == Len(h) <= Len(g) /\ SubSeq(g, 1, Len(h)) = h

\* C19: between resets the history is append-only: over every step but the
\* reset command the history before is a prefix of the history after.
C19_AppendOnlyUntilReset ==
    [][~(ReadsLine /\ ReadLower = resetWord) => IsPrefix(history, history')]_vars

C19_Witness ==
    /\ Len(history) = 4
    /\ failed = 2
    /\ succ = 1
    /\ history[4].Role = "assistant"

\* C20: every user message in the history, in interactive and in single-shot
\* mode, is an output of the sanitizer: not empty, a fixed point of
\* cleanInput, without control characters.
C20_UserMessagesAreSanitized ==
    \A i \in 1..Len(history) :
        history[i].Role = "user"
          => /\ history[i].Content # <<>>
             /\ cleanInput(history[i].Content) = history[i].Content
             /\ \A k \in 1..Len(history[i].Content) :
                  /\ history[i].Content[k] >= 32
                  /\ history[i].Content[k] # 127

---------------------------------------------------------------------------
(* Properties of the transcript numbering *)

IsUserLine(l) == l.role = "user"

\* C21: in the transcript of the history command the k-th user message is
\* shown with the number k, for every history, orphaned user messages
\* included: the numbers on the user lines are 1, 2, 3, ... with no repeat
\* and no gap.
C21_UserLinesNumberedInOrder ==
    printed.kind = "history"
      => \A k \in 1..Len(SelectSeq(printed.lines, IsUserLine)) :
             SelectSeq(printed.lines, IsUserLine)[k].number = k

---------------------------------------------------------------------------
(* Properties of the sanitizer's result *)

\* the input of the sanitizer as the code points Go decodes from it, and the
\* result of the first application
CleanIn == [i \in 1..Len(line[1]) |-> RuneOf(line[1][i])]
CleanOut == cleanRuns[1]

IsControl(r) == (r < 32 /\ r # 9) \/ r = 127
IsPrintableOrHigh(r) == r \in 33..126 \/ r > 127
IsVisible(r) == IsPrintableOrHigh(r) /\ ~IsSpace(r)
IsNotBlank(r) == r # 32

\* the result has no control character, no whitespace at either end and no
\* two whitespace characters in a row
WellSpaced(out) ==
    /\ \A k \in 1..Len(out) : ~IsControl(out[k])
    /\ out # <<>> => ~IsSpace(out[1]) /\ ~IsSpace(out[Len(out)])
    /\ \A k \in 1..(Len(out) - 1) : ~(IsSpace(out[k]) /\ IsSpace(out[k + 1]))

\* C22 as stated: clean keeps, in order, every character 33-126 and every
\* code point above 127 of the input, drops the control characters, leaves
\* no whitespace at the ends and no run of whitespace, and returns the
\* empty string exactly when no non-whitespace character survives.
C22_KeepsEveryHighCodePoint ==
    cleanRuns # <<>>
      => /\ SelectSeq(CleanOut, IsPrintableOrHigh)
              = SelectSeq(CleanIn, IsPrintableOrHigh)
         /\ WellSpaced(CleanOut)
         /\ (CleanOut = <<>>) <=> (SelectSeq(CleanIn, IsVisible) = <<>>)

\* C22 amended: clean keeps, in order, every character 33-126 and every code
\* point above 127 of the input that is not Unicode whitespace, and nothing
\* else but single spaces between them; whitespace above 127 is trimmed and
\* collapsed like space and tab; the control characters are dropped; the
\* result is empty exactly when the input has no kept non-whitespace
\* character.
C22_KeepsVisibleCodePoints ==
    cleanRuns # <<>>
      => /\ SelectSeq(CleanOut, IsNotBlank) = SelectSeq(CleanIn, IsVisible)
         /\ \A k \in 1..Len(CleanOut) : CleanOut[k] = 32 \/ IsVisible(CleanOut[k])
         /\ WellSpaced(CleanOut)
         /\ (CleanOut = <<>>) <=> (SelectSeq(CleanIn, IsVisible) = <<>>)

C22_Witness ==
    /\ line = <<<<97, 160, 128, 1>>>>
    /\ cleanRuns = <<<<97, 32, 128>>>>

===========================================================================
